---- MODULE Spec2Model ----
(***************************************************************************)
(* Connect4 (kaplanz/connect4): the Board grid, the gravity drop, the turn *)
(* gate of the Game wrapper and the win / game-over detection of           *)
(* src/src/lib.rs, as a state machine.                                     *)
(*                                                                         *)
(* Spec      : a game driven through Connect4::play from Connect4::new().  *)
(* SpecBoard : Board::winner, Board::over and Board::turns applied to a    *)
(*             bounded family of gravity-respecting boards.                *)
(* SpecDrop  : a board filled through Board::play by either owner.         *)
(* SpecTurn  : Turn::new applied to positions inside and outside the grid. *)
(* SpecLoop  : a game played by a caller that takes its moves from turns() *)
(*             for as long as over() is false.                             *)
(***************************************************************************)
EXTENDS Integers, Sequences, FiniteSets, TLC

VARIABLES board, player, op, ret, turn

vars == <<board, player, op, ret, turn>>

(***************************************************************************)
(* Program constants.                                                      *)
(***************************************************************************)
ROWS == 6

COLS == 7

CONNECT == 4

(***************************************************************************)
(* Bounds of the model.                                                    *)
(***************************************************************************)
\* Spec: no play is attempted once this many pieces are on the board.
MaxPieces == 8

\* Spec: the callers of play choose among the last NumPlayCols columns.
NumPlayCols == 2

\* SpecBoard: number of filler colourings used to build the input boards.
NumPatterns == 2

\* SpecTurn: Turn::new is tried on the positions 0 .. MaxPos.
MaxPos == 8

(***************************************************************************)
(* Player, Square, Turn.                                                   *)
(***************************************************************************)
Black == "Black"

White == "White"

Player == {Black, White}

\* Option::None of Option<Player>.
None == "None"

Empty == "Empty"

Piece(p) == p

Square == {Piece(p) : p \in Player} \cup {Empty}

opponent(p) == IF p = Black THEN White ELSE Black

taken(s) == s \in {Piece(p) : p \in Player}

\* Turn::new accepting pos <= COLS.
TurnNewLe(p, pos) == IF pos <= COLS THEN <<[player |-> p, pos |-> pos]>> ELSE <<>>

\* Option<Turn>: Some(t) is the one-element sequence <<t>>, None the empty one.
TurnNew(p, pos) == IF pos < COLS THEN <<[player |-> p, pos |-> pos]>> ELSE <<>>

\* Value of the turn variable before any play call.
NoTurn == [player |-> None, pos |-> 0]

(***************************************************************************)
(* Board.                                                                  *)
(***************************************************************************)
RowIdx == 0 .. (ROWS - 1)

ColIdx == 0 .. (COLS - 1)

BoardNew == [r \in RowIdx |-> [c \in ColIdx |-> Empty]]

\* Board::play: the rows are visited from index 0 upwards and the first
\* square of column t.pos that is not taken receives the piece.
RECURSIVE BoardPlayFrom(_, _, _)
BoardPlayFrom(b, t, r) ==
    IF r >= ROWS
    THEN [board |-> b, played |-> FALSE]
    ELSE IF ~taken(b[r][t.pos])
         THEN [board |-> [b EXCEPT ![r][t.pos] = Piece(t.player)], played |-> TRUE]
         ELSE BoardPlayFrom(b, t, r + 1)

\* Board::play visiting the rows from the top: the piece lands on the highest
\* free square of the column.
BoardPlayTop(b, t) ==
    LET free == {r \in RowIdx : ~taken(b[r][t.pos])}
    IN  IF free = {}
        THEN [board |-> b, played |-> FALSE]
        ELSE LET r == CHOOSE x \in free : \A y \in free : y <= x
             IN  [board |-> [b EXCEPT ![r][t.pos] = Piece(t.player)], played |-> TRUE]

\* Board::play reporting success when the column is full.
BoardPlayFullTrue(b, t) ==
    [board |-> BoardPlayFrom(b, t, 0).board, played |-> TRUE]

\* Board::play putting the piece on the top square when the column is full.
BoardPlayOverwrite(b, t) ==
    LET res == BoardPlayFrom(b, t, 0)
    IN  IF res.played
        THEN res
        ELSE [board |-> [b EXCEPT ![ROWS - 1][t.pos] = Piece(t.player)], played |-> FALSE]

\* Board::play placing a piece of the other owner.
BoardPlayOther(b, t) == BoardPlayFrom(b, [t EXCEPT !.player = opponent(t.player)], 0)

\* Board::play skipping the bottom row.
BoardPlaySkip(b, t) == BoardPlayFrom(b, t, 1)

BoardPlay(b, t) == BoardPlayFrom(b, t, 0)

(***************************************************************************)
(* Board::winner.                                                          *)
(***************************************************************************)
Min(a, b) == IF a < b THEN a ELSE b

\* The range a..b (exclusive of b) as a sequence.
Range(a, b) == [k \in 1 .. (IF b > a THEN b - a ELSE 0) |-> a + k - 1]

Rev(s) == [k \in 1 .. Len(s) |-> s[Len(s) + 1 - k]]

Zip(s, t) == [k \in 1 .. Min(Len(s), Len(t)) |-> <<s[k], t[k]>>]

\* The closure connect4: the first window of CONNECT squares whose values are
\* all equal and whose last square is a piece decides.
RECURSIVE connect4From(_, _)
connect4From(v, k) ==
    IF k + CONNECT - 1 > Len(v)
    THEN None
    ELSE LET four == SubSeq(v, k, k + CONNECT - 1)
         IN  IF Cardinality({four[j] : j \in 1 .. CONNECT}) = 1 /\ taken(four[CONNECT])
             THEN four[CONNECT]
             ELSE connect4From(v, k + 1)

\* connect4 comparing only the two ends of each window.
RECURSIVE connect4EndsFrom(_, _)
connect4EndsFrom(v, k) ==
    IF k + CONNECT - 1 > Len(v)
    THEN None
    ELSE LET four == SubSeq(v, k, k + CONNECT - 1)
         IN  IF four[1] = four[CONNECT] /\ taken(four[CONNECT])
             THEN four[CONNECT]
             ELSE connect4EndsFrom(v, k + 1)

connect4Ends(v) == connect4EndsFrom(v, 1)

connect4(v) == connect4From(v, 1)

\* The lines are kept as sequences of <<row, col>>; Squares reads them.
\* A row collected over 0..ROWS columns instead of all of them.
RowLineRows(r) == [k \in 1 .. ROWS |-> <<r, k - 1>>]

RowLine(r) == [k \in 1 .. COLS |-> <<r, k - 1>>]

ColLine(col) == [k \in 1 .. ROWS |-> <<k - 1, col>>]

\* (0..i).rev().zip(0..COLS) as (row, col)
DiagRowDown(i) == Zip(Rev(Range(0, i)), Range(0, COLS))

\* (i..ROWS).zip(0..COLS) as (row, col)
DiagRowUp(i) == Zip(Range(i, ROWS), Range(0, COLS))

\* The diagonal walked over the columns i..ROWS instead of i..COLS.
DiagColUpRows(i) ==
    LET z == Zip(Range(i, ROWS), Range(0, ROWS))
    IN  [k \in 1 .. Len(z) |-> <<z[k][2], z[k][1]>>]

\* (i..COLS).zip(0..ROWS) as (col, row)
DiagColUp(i) ==
    LET z == Zip(Range(i, COLS), Range(0, ROWS))
    IN  [k \in 1 .. Len(z) |-> <<z[k][2], z[k][1]>>]

\* (i..COLS).rev().zip(0..ROWS) as (col, row)
DiagColDown(i) ==
    LET z == Zip(Rev(Range(i, COLS)), Range(0, ROWS))
    IN  [k \in 1 .. Len(z) |-> <<z[k][2], z[k][1]>>]

\* for row in self.0.iter()
RowLines == [k \in 1 .. ROWS |-> RowLine(k - 1)]

\* for col in 0..ROWS
ColLines == [k \in 1 .. ROWS |-> ColLine(k - 1)]

\* for i in 0..ROWS: two pushes per i
RowDiagLines ==
    [k \in 1 .. 2 * ROWS |->
        IF k % 2 = 1 THEN DiagRowDown((k - 1) \div 2) ELSE DiagRowUp((k - 1) \div 2)]

\* for i in 1..COLS: two pushes per i
ColDiagLines ==
    [k \in 1 .. 2 * (COLS - 1) |->
        IF k % 2 = 1 THEN DiagColUp((k - 1) \div 2 + 1) ELSE DiagColDown((k - 1) \div 2 + 1)]

\* The vec `lines`, in push order.
Lines == RowLines \o ColLines \o RowDiagLines \o ColDiagLines

\* lines.into_iter().filter(|it| it.len() >= 4)
LongLines == SelectSeq(Lines, LAMBDA it : Len(it) >= 4)

Squares(b, line) == [k \in 1 .. Len(line) |-> b[line[k][1]][line[k][2]]]

RECURSIVE winnerFrom(_, _)
winnerFrom(b, k) ==
    IF k > Len(LongLines)
    THEN None
    ELSE LET win == connect4(Squares(b, LongLines[k]))
         IN  IF win # None THEN win ELSE winnerFrom(b, k + 1)

\* winner returning the result of the first line, without looking further.
winnerFirstLine(b) == connect4(Squares(b, LongLines[1]))

winner(b) == winnerFrom(b, 1)

\* over testing any square of the top row instead of all of them.
overAny(b) == (\E c \in ColIdx : taken(b[ROWS - 1][c])) \/ winner(b) # None

over(b) == (\A c \in ColIdx : taken(b[ROWS - 1][c])) \/ winner(b) # None

\* turns building its moves for the opponent of the given player.
turnsOther(b, p) ==
    LET cols == SelectSeq(Range(0, COLS), LAMBDA col : ~taken(b[ROWS - 1][col]))
    IN  [k \in 1 .. Len(cols) |-> TurnNew(opponent(p), cols[k])[1]]

\* turns without the filter on the top row.
turnsAll(b, p) == [k \in 1 .. COLS |-> TurnNew(p, k - 1)[1]]

\* turns filtering on the bottom row instead of the top row.
turnsBottom(b, p) ==
    LET cols == SelectSeq(Range(0, COLS), LAMBDA col : ~taken(b[0][col]))
    IN  [k \in 1 .. Len(cols) |-> TurnNew(p, cols[k])[1]]

\* Board::turns: one turn per column whose top square is not taken.
turns(b, p) ==
    LET cols == SelectSeq(Range(0, COLS), LAMBDA col : ~taken(b[ROWS - 1][col]))
    IN  [k \in 1 .. Len(cols) |-> TurnNew(p, cols[k])[1]]

(***************************************************************************)
(* Connect4: the game.                                                     *)
(***************************************************************************)
Pieces(b) == Cardinality({rc \in RowIdx \X ColIdx : taken(b[rc[1]][rc[2]])})

PlayCols == (COLS - NumPlayCols) .. (COLS - 1)

Init ==
    /\ board = BoardNew
    /\ player = Black
    /\ op = "new"
    /\ ret = None
    /\ turn = NoTurn

\* play without the owner check.
GamePlayNoGate(t) ==
    /\ op' = "play"
    /\ turn' = t
    /\ LET played == BoardPlay(board, t)
       IN  /\ board' = played.board
           /\ player' = opponent(player)
           /\ ret' = played.played

\* play without the switch of the player.
GamePlayNoSwitch(t) ==
    /\ op' = "play"
    /\ turn' = t
    /\ IF t.player # player
       THEN /\ ret' = FALSE
            /\ UNCHANGED <<board, player>>
       ELSE LET played == BoardPlay(board, t)
            IN  /\ board' = played.board
                /\ player' = player
                /\ ret' = played.played

\* Connect4::play(turn)
GamePlay(t) ==
    /\ op' = "play"
    /\ turn' = t
    /\ IF t.player # player
       THEN /\ ret' = FALSE
            /\ UNCHANGED <<board, player>>
       ELSE LET played == BoardPlay(board, t)
            IN  /\ board' = played.board
                /\ player' = opponent(player)
                /\ ret' = played.played

Play ==
    /\ Pieces(board) < MaxPieces
    /\ \E p \in Player, pos \in PlayCols :
          /\ TurnNew(p, pos) # <<>>
          /\ GamePlay(TurnNew(p, pos)[1])

Next == Play

Spec == Init /\ [][Next]_vars

(***************************************************************************)
(* Board::winner and Board::over as operations on a given board.           *)
(***************************************************************************)
\* board.winner()
CallWinner ==
    /\ op' = "winner"
    /\ ret' = winner(board)
    /\ UNCHANGED <<board, player, turn>>

\* board.over()
CallOver ==
    /\ op' = "over"
    /\ ret' = over(board)
    /\ UNCHANGED <<board, player, turn>>

\* board.turns(p)
CallTurns ==
    \E p \in Player :
        /\ op' = "turns"
        /\ ret' = turns(board, p)
        /\ turn' = [player |-> p, pos |-> 0]
        /\ UNCHANGED <<board, player>>

\* board.play(&turn), for a turn of either owner
CallPlay ==
    /\ Pieces(board) < MaxPieces
    /\ \E p \in Player, pos \in PlayCols :
          LET t == TurnNew(p, pos)[1]
              played == BoardPlay(board, t)
          IN  /\ op' = "board_play"
              /\ turn' = t
              /\ board' = played.board
              /\ ret' = played.played
              /\ UNCHANGED player

\* Turn::new(p, pos)
CallTurnNew ==
    \E p \in Player, pos \in 0 .. MaxPos :
        /\ op' = "turn_new"
        /\ turn' = [player |-> p, pos |-> pos]
        /\ ret' = TurnNew(p, pos)
        /\ UNCHANGED <<board, player>>

\* A board filled through Board::play alone.
NextDrop == CallPlay

SpecDrop == Init /\ [][NextDrop]_vars

\* The board after ROWS alternating plays into column c, Black first.
ColumnFilled(c) ==
    [r \in RowIdx |-> [c2 \in ColIdx |->
        IF c2 # c THEN Empty ELSE IF r % 2 = 0 THEN Piece(Black) ELSE Piece(White)]]

\* Turn::new is called on the empty board and on boards with a full column.
InitTurn ==
    /\ board \in {BoardNew} \cup {ColumnFilled(c) : c \in ColIdx}
    /\ player = Black
    /\ op = "new"
    /\ ret = None
    /\ turn = NoTurn

NextTurn == CallTurnNew

SpecTurn == InitTurn /\ [][NextTurn]_vars

(***************************************************************************)
(* Geometry of the grid, stated independently of the scan of winner().     *)
(***************************************************************************)
InGrid(r, c) == r \in RowIdx /\ c \in ColIdx

\* <<1,0>> vertical, <<0,1>> horizontal, <<1,1>> rising, <<1,-1>> falling.
Dirs == {<<1, 0>>, <<0, 1>>, <<1, 1>>, <<1, -1>>}

WindowCells(r, c, d) == {<<r + k * d[1], c + k * d[2]>> : k \in 0 .. (CONNECT - 1)}

Windows ==
    {w \in RowIdx \X ColIdx \X Dirs :
        \A rc \in WindowCells(w[1], w[2], w[3]) : InGrid(rc[1], rc[2])}

\* The four cells starting at (r, c) in direction d are all pieces of p.
FourAt(b, p, r, c, d) ==
    \A rc \in WindowCells(r, c, d) :
        InGrid(rc[1], rc[2]) /\ b[rc[1]][rc[2]] = Piece(p)

\* The cell sets of the windows of the grid.
WindowSets == {WindowCells(w[1], w[2], w[3]) : w \in Windows}

\* Some window of the grid holds four pieces of p.
HasFour(b, p) == \E cells \in WindowSets : \A rc \in cells : b[rc[1]][rc[2]] = Piece(p)

Count(b, p) == Cardinality({rc \in RowIdx \X ColIdx : b[rc[1]][rc[2]] = Piece(p)})

ColumnFull(b, c) == \A r \in RowIdx : taken(b[r][c])

TopRowFull(b) == Cardinality({c \in ColIdx : b[ROWS - 1][c] # Empty}) = COLS

BoardFull(b) == Pieces(b) = ROWS * COLS

\* No empty square lies below a piece.
Gravity(b) ==
    \A r \in 1 .. (ROWS - 1), c \in ColIdx : taken(b[r][c]) => taken(b[r - 1][c])

(***************************************************************************)
(* The input boards of SpecBoard.  A board of the family is built from a   *)
(* window w, an owner p, a subset S of the cells of w and a filler         *)
(* colouring: the cells of S hold pieces of p, the other filled cells hold *)
(* the filler's colour.  The filled region is the whole grid ("full"), the *)
(* window with everything below it ("support"), or S with everything below *)
(* the window ("partial").  Only boards that respect gravity are kept:     *)
(* they are the boards Board::play can build from the empty one.           *)
(***************************************************************************)
\* Colourings without four in a line: pairs of columns, alternating rows.
Pattern(k, r, c) == IF (((c + k) \div 2) + r) % 2 = 0 THEN Piece(Black) ELSE Piece(White)

Profiles == {"full", "support", "partial"}

Filled(w, S, profile, r, c) ==
    LET inCol == {rc \in WindowCells(w[1], w[2], w[3]) : rc[2] = c}
    IN  CASE profile = "full" -> TRUE
          [] profile = "support" -> \E rc \in inCol : rc[1] >= r
          [] OTHER -> \/ <<r, c>> \in S
                      \/ (inCol # {} /\ \A rc \in inCol : rc[1] > r)

FamilyBoard(w, p, S, profile, k) ==
    [r \in RowIdx |-> [c \in ColIdx |->
        IF <<r, c>> \in S THEN Piece(p)
        ELSE IF Filled(w, S, profile, r, c) THEN Pattern(k, r, c)
        ELSE Empty]]

InitBoard ==
    /\ \E w \in Windows, p \in Player, profile \in Profiles, k \in 0 .. (NumPatterns - 1) :
          \E S \in SUBSET WindowCells(w[1], w[2], w[3]) :
              /\ board = FamilyBoard(w, p, S, profile, k)
              /\ Gravity(board)
    /\ player = Black
    /\ op = "new"
    /\ ret = None
    /\ turn = NoTurn

NextBoard == CallWinner \/ CallOver \/ CallTurns

SpecBoard == InitBoard /\ [][NextBoard]_vars

(***************************************************************************)
(* Claims.                                                                 *)
(***************************************************************************)
\* C1: a play by the current owner into a column that is already full
\* returns false, leaves the board unchanged and does not advance the turn.
C1_FullColumnKeepsTurn ==
    [][(op' = "play" /\ turn'.player = player /\ ColumnFull(board, turn'.pos))
        => (ret' = FALSE /\ player' = player /\ board' = board)]_vars

\* C2: for every column, the last one included, and every owner p: four
\* vertically consecutive pieces of p, while the other owner has no four in a
\* line, make winner() return p.
C2_VerticalFourWins ==
    \A r \in RowIdx, c \in ColIdx, p \in Player :
        (FourAt(board, p, r, c, <<1, 0>>) /\ ~HasFour(board, opponent(p)))
            => winner(board) = p

\* C3: for every falling diagonal and every owner p: pieces of p on
\* (r,c), (r+1,c-1), (r+2,c-2), (r+3,c-3), while the other owner has no four
\* in a line, make winner() return p.
C3_FallingDiagonalWins ==
    \A r \in RowIdx, c \in ColIdx, p \in Player :
        (FourAt(board, p, r, c, <<1, -1>>) /\ ~HasFour(board, opponent(p)))
            => winner(board) = p

\* C4: for every rising diagonal and every owner p: pieces of p on
\* (r,c), (r+1,c+1), (r+2,c+2), (r+3,c+3), while the other owner has no four
\* in a line, make winner() return p.
C4_RisingDiagonalWins ==
    \A r \in RowIdx, c \in ColIdx, p \in Player :
        (FourAt(board, p, r, c, <<1, 1>>) /\ ~HasFour(board, opponent(p)))
            => winner(board) = p

\* C4 witness: winner() was called on a board whose longest-shifted rising
\* diagonal (0,3)..(3,6) holds four pieces of one owner, and returned that owner.
C4_Witness ==
    \E p \in Player :
        /\ FourAt(board, p, 0, COLS - CONNECT, <<1, 1>>)
        /\ ~HasFour(board, opponent(p))
        /\ op = "winner"
        /\ ret = p

\* C5: for every row r, every window start c in 0..C-4 and every owner p:
\* pieces of p on (r,c)..(r,c+3), while the other owner has no four in a
\* line, make winner() return p.
C5_HorizontalFourWins ==
    \A r \in RowIdx, c \in ColIdx, p \in Player :
        (FourAt(board, p, r, c, <<0, 1>>) /\ ~HasFour(board, opponent(p)))
            => winner(board) = p

\* C5 witness: winner() was called on a board whose top row holds four pieces
\* of one owner in its last window, columns C-4..C-1, and returned that owner.
C5_Witness ==
    \E p \in Player :
        /\ FourAt(board, p, ROWS - 1, COLS - CONNECT, <<0, 1>>)
        /\ ~HasFour(board, opponent(p))
        /\ op = "winner"
        /\ ret = p

\* C6: winner() returns an owner only if four consecutive collinear cells hold
\* pieces of that owner; it returns None while no owner has placed four pieces,
\* on the empty board in particular.  ret is the value winner() returned.
C6_WinnerIsSound ==
    op = "winner"
        => /\ ret \in Player \cup {None}
           /\ ret # None => HasFour(board, ret)
           /\ (\A p \in Player : Count(board, p) < CONNECT) => ret = None
           /\ board = BoardNew => ret = None

\* C6 witness: winner() returned None on a board with a window of three pieces
\* of one owner and an empty square, and with a window holding pieces of both
\* owners and no empty square.
C6_Witness ==
    /\ op = "winner"
    /\ ret = None
    /\ \E w \in Windows, p \in Player :
          LET cells == WindowCells(w[1], w[2], w[3])
          IN  /\ Cardinality({rc \in cells : board[rc[1]][rc[2]] = Piece(p)}) = CONNECT - 1
              /\ Cardinality({rc \in cells : board[rc[1]][rc[2]] = Empty}) = 1
    /\ \E w \in Windows :
          LET cells == WindowCells(w[1], w[2], w[3])
          IN  /\ \A rc \in cells : taken(board[rc[1]][rc[2]])
              /\ \E rc \in cells : board[rc[1]][rc[2]] = Piece(Black)
              /\ \E rc \in cells : board[rc[1]][rc[2]] = Piece(White)

\* The cell sets of the windows of the scanned lines.
ScannedWindows ==
    UNION {{{LongLines[k][j + m] : m \in 0 .. (CONNECT - 1)} :
                j \in 1 .. (Len(LongLines[k]) - CONNECT + 1)} :
            k \in 1 .. Len(LongLines)}

\* The owners for which some window of some scanned line is won, whatever the
\* order in which lines and windows are visited.
ScannedWinners(b) ==
    {p \in Player : \E cells \in ScannedWindows : \A rc \in cells : b[rc[1]][rc[2]] = Piece(p)}

\* C7 as stated: in every state reached by any sequence of play calls, at most
\* one owner has four consecutive pieces in a line.
C7_OneOwnerHasFour == ~(HasFour(board, Black) /\ HasFour(board, White))

\* The owners with four consecutive pieces in a line of the grid.
FourOwners(b) == {p \in Player : HasFour(b, p)}

\* C7 as amended: after a play call made while no owner had four in a line, at
\* most one owner has four in a line, and that owner is the one whose piece
\* was played; every won window of a scanned line belongs to that owner, so
\* that winner() is that owner when a scanned line holds a won window and None
\* otherwise, whatever the order in which lines and windows are visited.
C7_OpenPlayOneOwner ==
    [][FourOwners(board) = {}
        => \A owners \in {FourOwners(board')}, found \in {ScannedWinners(board')},
              win \in {winner(board')} :
              /\ Cardinality(owners) <= 1
              /\ owners \subseteq {turn'.player}
              /\ found \subseteq owners
              /\ \A p \in found : win = p
              /\ found = {} => win = None]_vars

\* The board before the last successful play: the top piece of the played
\* column removed.
Undo(b, c) ==
    LET top == CHOOSE r \in RowIdx :
                   taken(b[r][c]) /\ \A r2 \in RowIdx : r2 > r => ~taken(b[r2][c])
    IN  [b EXCEPT ![top][c] = Empty]

\* C7 witness: a successful play made while no owner had four in a line
\* completed four in a scanned line for its owner, while the other owner holds
\* three in a column with room above them.
C7_Witness ==
    /\ op = "play"
    /\ ret = TRUE
    /\ FourOwners(Undo(board, turn.pos)) = {}
    /\ FourOwners(board) = {turn.player}
    /\ winner(board) = turn.player
    /\ \E r \in RowIdx, c \in ColIdx :
          /\ InGrid(r + CONNECT - 1, c)
          /\ board[r + CONNECT - 1][c] = Empty
          /\ \A k \in 0 .. (CONNECT - 2) :
                board[r + k][c] = Piece(opponent(turn.player))

\* C8: a play whose owner is not the current owner returns false and changes
\* neither the board nor the current owner.
C8_WrongOwnerRejected ==
    [][(op' = "play" /\ turn'.player # player)
        => (ret' = FALSE /\ board' = board /\ player' = player)]_vars

\* C8 witness: the last play was rejected although its column had room, with
\* pieces on the board: the rejection was for the owner.
C8_Witness ==
    /\ op = "play"
    /\ ret = FALSE
    /\ ~ColumnFull(board, turn.pos)
    /\ turn.player # player
    /\ Pieces(board) > 0

\* The cells on which two boards differ.
Changed(b1, b2) == {rc \in RowIdx \X ColIdx : b1[rc[1]][rc[2]] # b2[rc[1]][rc[2]]}

\* C9: after a play that returns true the current owner is the opponent of
\* the owner of the played move, and exactly one cell changed, from Empty to
\* a piece of that owner.
C9_SuccessfulPlay ==
    [][(op' = "play" /\ ret' = TRUE)
        => (/\ player' = opponent(turn'.player)
            /\ Cardinality(Changed(board, board')) = 1
            /\ \A rc \in Changed(board, board') :
                  /\ board[rc[1]][rc[2]] = Empty
                  /\ board'[rc[1]][rc[2]] = Piece(turn'.player))]_vars

\* C9 witness: White played successfully on top of another piece and it is
\* Black's turn.
C9_Witness ==
    /\ op = "play"
    /\ ret = TRUE
    /\ turn.player = White
    /\ player = Black
    /\ \E r \in 1 .. (ROWS - 1) :
          /\ board[r][turn.pos] = Piece(White)
          /\ \A r2 \in RowIdx : r2 > r => board[r2][turn.pos] = Empty

\* C10: over() is true exactly when the top row is entirely occupied or
\* winner() returns an owner; so it is true, with winner() None, on a full
\* board without four in a line, and false on the empty board.  ret is the
\* value over() returned.
C10_OverIffFullOrWon ==
    op = "over"
        => LET win == winner(board)
           IN  /\ ret \in BOOLEAN
               /\ ret <=> (TopRowFull(board) \/ win \in Player)
               /\ (BoardFull(board) /\ \A p \in Player : ~HasFour(board, p))
                     => (ret /\ win = None)
               /\ board = BoardNew => ~ret

\* C10 witness: over() returned true on a full board on which no owner has
\* four in a line, each owner holding half of the cells.
C10_Witness ==
    /\ op = "over"
    /\ ret = TRUE
    /\ BoardFull(board)
    /\ \A p \in Player : ~HasFour(board, p) /\ 2 * Count(board, p) = ROWS * COLS
    /\ winner(board) = None

\* Number of pieces in column c.
Height(b, c) == Cardinality({r \in RowIdx : taken(b[r][c])})

\* C11: Board::play of a move into a column holding fewer than R pieces
\* returns true, sets the lowest empty cell of the column to a piece of the
\* move's owner, raises the column's count by one and leaves every other cell
\* unchanged, whoever the owner is.
C11_DropSucceeds ==
    [][(op' = "board_play" /\ Height(board, turn'.pos) < ROWS)
        => LET c == turn'.pos
               low == CHOOSE r \in RowIdx :
                          /\ board[r][c] = Empty
                          /\ \A r2 \in RowIdx : r2 < r => board[r2][c] # Empty
           IN  /\ ret' = TRUE
               /\ board'[low][c] = Piece(turn'.player)
               /\ Height(board', c) = Height(board, c) + 1
               /\ \A r \in RowIdx, c2 \in ColIdx :
                     <<r, c2>> # <<low, c>> => board'[r][c2] = board[r][c2]]_vars

\* C11 witness: a piece of White was dropped with success right on top of
\* another piece of White: the same owner moved twice in that column.
C11_Witness ==
    /\ op = "board_play"
    /\ ret = TRUE
    /\ turn.player = White
    /\ Height(board, turn.pos) >= 2
    /\ board[Height(board, turn.pos) - 1][turn.pos] = Piece(White)
    /\ board[Height(board, turn.pos) - 2][turn.pos] = Piece(White)

\* C12: Board::play of a move into a column whose R cells are all occupied
\* returns false and leaves the whole grid unchanged.
C12_FullColumnRefused ==
    [][(op' = "board_play" /\ ColumnFull(board, turn'.pos))
        => (ret' = FALSE /\ board' = board)]_vars

\* C12 witness: the last drop was refused, its column being full.
C12_Witness ==
    /\ op = "board_play"
    /\ ret = FALSE
    /\ ColumnFull(board, turn.pos)
    /\ Height(board, turn.pos) = ROWS

\* C14: a cell that holds a piece holds the same piece in every later state.
C14_PiecesStay ==
    [][\A r \in RowIdx, c \in ColIdx :
          taken(board[r][c]) => board'[r][c] = board[r][c]]_vars

\* C14 witness: after pieces of both owners were placed, a drop into a full
\* column whose top piece belongs to the other owner was attempted.
C14_Witness ==
    /\ op = "board_play"
    /\ ret = FALSE
    /\ Height(board, turn.pos) = ROWS
    /\ board[ROWS - 1][turn.pos] = Piece(opponent(turn.player))
    /\ \E c \in ColIdx : c # turn.pos /\ board[0][c] = Piece(turn.player)

\* C15: Turn::new(owner, column) yields a move exactly when column < C, the
\* move carrying that owner and column, whatever the board holds.
C15_TurnNewInRange ==
    op = "turn_new"
        => /\ (ret # <<>>) <=> (turn.pos < COLS)
           /\ turn.pos \in ColIdx => ret = <<[player |-> turn.player, pos |-> turn.pos]>>
           /\ turn.pos >= COLS => ret = <<>>

\* C15 witness: Turn::new returned nothing for column C, on a board with a
\* full column.
C15_Witness ==
    /\ op = "turn_new"
    /\ turn.pos = COLS
    /\ ret = <<>>
    /\ \E c \in ColIdx : ColumnFull(board, c)

\* C20: on every board built by Board::play from the empty board the pieces
\* of each column form a block starting at row 0, so a column is full exactly
\* when its top cell is occupied.
C20_GravityHolds ==
    /\ Gravity(board)
    /\ \A c \in ColIdx : Height(board, c) = ROWS <=> board[ROWS - 1][c] # Empty

\* C20 witness: a full column stands next to a column that is partly filled.
C20_Witness ==
    /\ op = "board_play"
    /\ \E c \in ColIdx : Height(board, c) = ROWS /\ board[ROWS - 1][c] # Empty
    /\ \E c \in ColIdx : Height(board, c) \in 1 .. (ROWS - 1)

\* The columns whose top cell is not occupied.
OpenCols(b) == {c \in ColIdx : b[ROWS - 1][c] = Empty}

\* C13: for every board and owner p, turns(p) holds exactly one move per
\* column whose top cell is not occupied and none for a full column, in
\* strictly ascending column order, every move carrying p; on the empty board
\* the columns are 0 .. C-1 in order.
C13_TurnsAreOpenColumns ==
    \A p \in Player :
        LET ts == turns(board, p)
        IN  /\ Len(ts) <= COLS
            /\ Len(ts) = Cardinality(OpenCols(board))
            /\ {ts[i].pos : i \in 1 .. Len(ts)} = OpenCols(board)
            /\ \A i \in 1 .. Len(ts) : ts[i].player = p
            /\ \A i, j \in 1 .. Len(ts) : i < j => ts[i].pos < ts[j].pos
            /\ board = BoardNew => ts = [k \in 1 .. COLS |-> [player |-> p, pos |-> k - 1]]

\* C13 witness: turns() for White returned moves that skip a full column
\* lying between two open ones.
C13_Witness ==
    /\ op = "turns"
    /\ turn.player = White
    /\ Len(ret) \in 2 .. (COLS - 1)
    /\ \E i \in 1 .. (Len(ret) - 1) : ret[i + 1].pos > ret[i].pos + 1
    /\ \A i \in 1 .. Len(ret) : ret[i].player = White

\* The cells of the grid of board b.
GridCells(b) == {rc \in (DOMAIN b) \X ColIdx : rc[2] \in DOMAIN b[rc[1]]}

\* The maximal diagonals of the grid of b with at least CONNECT cells, as sets
\* of cells: both directions, each started on a cell without predecessor.
MaxDiagonals(b) ==
    LET from(r, c, d) ==
            {rc \in GridCells(b) :
                \E k \in 0 .. (ROWS - 1) : rc = <<r + k * d[1], c + k * d[2]>>}
        starts == {x \in GridCells(b) \X {<<1, 1>>, <<1, -1>>} :
                      <<x[1][1] - x[2][1], x[1][2] - x[2][2]>> \notin GridCells(b)}
        all == {from(x[1][1], x[1][2], x[2]) : x \in starts}
    IN  {D \in all : Cardinality(D) >= CONNECT}

CellSet(line) == {line[k] : k \in 1 .. Len(line)}

IsDiagonalLine(line) ==
    Len(line) >= 2 /\ line[2][1] # line[1][1] /\ line[2][2] # line[1][2]

\* C16: the lines that winner() scans contain every maximal diagonal of
\* length >= 4, in both directions, exactly once, and no scanned diagonal line
\* is a truncated part of a maximal diagonal.
C16_DiagonalsExactlyOnce ==
    /\ \A D \in MaxDiagonals(board) :
          Cardinality({k \in 1 .. Len(LongLines) : CellSet(LongLines[k]) = D}) = 1
    /\ \A k \in 1 .. Len(LongLines) :
          IsDiagonalLine(LongLines[k]) => CellSet(LongLines[k]) \in MaxDiagonals(board)

\* C17: in every state of a game the number of Black pieces minus the number
\* of White pieces is 0 or 1, and the current player is Black exactly when the
\* two numbers are equal, so that no owner places two pieces in a row.
C17_TurnParity ==
    LET diff == Count(board, Black) - Count(board, White)
    IN  /\ diff \in {0, 1}
        /\ player = Black <=> diff = 0

\* Connect4::turns
GameTurns == turns(board, player)

(***************************************************************************)
(* The game loop: while over() is false the caller plays one of the moves  *)
(* of turns(); a caller may also go on playing after the game is over.     *)
(***************************************************************************)
\* The caller chooses between the last two moves of turns() until MaxPieces
\* pieces are placed, and takes the last move of turns() from then on.
LoopMoves ==
    LET n == Len(GameTurns)
    IN  IF Pieces(board) < MaxPieces THEN {i \in {n - 1, n} : i >= 1} ELSE {n}

LoopPlay ==
    /\ ~over(board)
    /\ \E i \in LoopMoves : GamePlay(GameTurns[i])

LatePlay ==
    /\ over(board)
    /\ Play

NextLoop == LoopPlay \/ LatePlay

SpecLoop == Init /\ [][NextLoop]_vars /\ WF_vars(LoopPlay)

\* C18: in every state of a game, play of a move of the current player
\* returns true exactly when the move is in turns(): the columns of turns()
\* are the columns that are not full.
C18_TurnsArePlayable ==
    [][\A ts \in {GameTurns} :
          /\ (op' = "play" /\ turn'.player = player)
                => (ret' = TRUE <=> \E i \in 1 .. Len(ts) : ts[i] = turn')
          /\ \A c \in ColIdx :
                (\E i \in 1 .. Len(ts) : ts[i].pos = c) <=> Height(board, c) < ROWS]_vars

\* C18 witness: while a column is full and missing from turns(), a move into
\* another column, one of turns(), was played with success.
C18_Witness ==
    /\ op = "play"
    /\ ret = TRUE
    /\ \E c \in ColIdx : Height(board, c) = ROWS /\ c # turn.pos
    /\ Len(GameTurns) = COLS - 1
    /\ Height(board, turn.pos) < ROWS


\* C19: while over() is false turns() is not empty and every play of a move
\* of turns() places a piece, so that a caller playing moves of turns() while
\* over() is false reaches over() within R*C plays; and once over() is true
\* it stays true after any further play.
C19_LoopTerminates ==
    /\ [][/\ ~over(board)
               => /\ Len(GameTurns) > 0
                  /\ ret' = TRUE
                  /\ Pieces(board') = Pieces(board) + 1
                  /\ Pieces(board') <= ROWS * COLS
          /\ over(board) => over(board')
          /\ Pieces(board') = ROWS * COLS => over(board')]_vars
    /\ <>over(board)

\* C19 witness: over() became true by a play of the caller, with more pieces
\* on the board than the caller chose freely.
C19_Witness ==
    /\ over(board)
    /\ op = "play"
    /\ ret = TRUE
    /\ ~over(Undo(board, turn.pos))
    /\ Pieces(board) > MaxPieces + 1

====
